---- MODULE Spec2Model ----
(***************************************************************************)
(* Employee-Appraisal: the question index (tool.py), the request/response  *)
(* front end (api.py) and the session front end (app.py).                  *)
(*                                                                         *)
(* Text that the program computes on (role names, option texts, answers,   *)
(* entry ids) is a sequence of one-character strings, so that replace,     *)
(* join, split, strip and lower are computed as Python computes them.      *)
(* Text that the program only passes along (the feedback) is a TLA+        *)
(* string.                                                                 *)
(***************************************************************************)
EXTENDS Integers, Sequences, FiniteSets, TLC

VARIABLES
    pc,              \* the process: "stopped", "imported", "ready", "failed"
    KNOWLEDGE_BASE,  \* tool.py:29, role -> list of question records
    collection,      \* the persisted chroma collection "appraisal_questions"
    setupLog,        \* history: what the last setup_knowledge_base call did
    popRoles,        \* history: the bank that populated the collection
    sample,          \* the last get_questions_for_role call and its result
    submission,      \* the last POST /assessment/submit and its response
    ss,              \* st.session_state of one browser session
    quiz,            \* history of the session's current quiz attempt
    codec            \* an option list on its way through the index encoding

vars == <<pc, KNOWLEDGE_BASE, collection, setupLog, popRoles, sample,
          submission, ss, quiz, codec>>

(***************************************************************************)
(* Bounds of the model.                                                    *)
(***************************************************************************)
MaxQuestions == 2      \* questions per role in a bank
MaxCount == 3          \* num_questions asked of the sampler
MaxOptions == 3        \* options in a list (round trip)
MaxOptionLen == 2      \* characters in an option (round trip)
MaxAnswers == 2        \* answers / questions in a submission
MaxLlmCalls == 3       \* get_feedback invocations followed in one attempt

(***************************************************************************)
(* Python's str operations on sequences of characters.                     *)
(***************************************************************************)
Range(s) == {s[i] : i \in 1..Len(s)}

SeqsUpTo(S, n) == UNION {[1..k -> S] : k \in 0..n}

Min(a, b) == IF a < b THEN a ELSE b

\* str.replace(old, new) for one-character old and new
Replace(s, old, new) == [i \in 1..Len(s) |-> IF s[i] = old THEN new ELSE s[i]]

LowerChar(c) ==
    CASE c = "A" -> "a"
      [] c = "B" -> "b"
      [] c = "D" -> "d"
      [] c = "S" -> "s"
      [] OTHER -> c

\* str.lower()
Lower(s) == [i \in 1..Len(s) |-> LowerChar(s[i])]

IsSpace(c) == c = " "

RECURSIVE LStrip(_)
LStrip(s) == IF s # <<>> /\ IsSpace(Head(s)) THEN LStrip(Tail(s)) ELSE s

RECURSIVE RStrip(_)
RStrip(s) ==
    IF s # <<>> /\ IsSpace(s[Len(s)]) THEN RStrip(SubSeq(s, 1, Len(s) - 1)) ELSE s

\* str.strip()
Strip(s) == RStrip(LStrip(s))

RECURSIVE Join(_, _)
\* sep.join(list)
Join(sep, list) ==
    IF list = <<>> THEN <<>>
    ELSE IF Len(list) = 1 THEN list[1]
    ELSE list[1] \o sep \o Join(sep, Tail(list))

StartsWith(s, p) == Len(s) >= Len(p) /\ SubSeq(s, 1, Len(p)) = p

RECURSIVE SplitFrom(_, _, _)
SplitFrom(s, sep, cur) ==
    IF s = <<>> THEN <<cur>>
    ELSE IF StartsWith(s, sep)
         THEN <<cur>> \o SplitFrom(SubSeq(s, Len(sep) + 1, Len(s)), sep, <<>>)
         ELSE SplitFrom(Tail(s), sep, Append(cur, Head(s)))

\* s.split(sep): the separators are found left to right, without overlap
Split(s, sep) == SplitFrom(s, sep, <<>>)

DigitChar(d) == <<"0", "1", "2", "3", "4", "5", "6", "7", "8", "9">>[d + 1]

RECURSIVE StrOfNat(_)
\* str(i) of the f-string
StrOfNat(n) ==
    IF n < 10 THEN <<DigitChar(n)>>
    ELSE StrOfNat(n \div 10) \o <<DigitChar(n % 10)>>

Delimiter == <<"|", "|">>

\* tool.py:72
SerializeOptions(options) == Join(Delimiter, options)

\* split on one bar
DeserializeOptionsSingle(text) == Split(text, <<"|">>)

\* tool.py:95
DeserializeOptions(text) == Split(text, Delimiter)

(***************************************************************************)
(* The banks knowledge_base.json may hold.                                 *)
(***************************************************************************)
RoleDS == <<"D", " ", "S">>
RoleD_S == <<"D", "_", "S">>
Roleds == <<"d", " ", "s">>

BankRoles == {RoleDS, RoleD_S}

\* the roles a caller may name: those of a bank, and a case variant of one
AnyRole == BankRoles \cup {Roleds}

Q1 == [question |-> <<"Q", "1">>,
       options |-> << <<"a">>, <<"b">> >>,
       answer |-> <<"a">>]

\* the answer differs from its option in case and surrounding whitespace
Q2 == [question |-> <<"Q", "2">>,
       options |-> << <<"a">>, <<"b", " ">> >>,
       answer |-> <<"B">>]

QuestionPool == {Q1, Q2}

TotalQuestions(bank) ==
    LET RECURSIVE Sum(_)
        Sum(R) == IF R = {} THEN 0
                  ELSE LET r == CHOOSE x \in R : TRUE
                       IN Len(bank[r]) + Sum(R \ {r})
    IN Sum(DOMAIN bank)

\* A bank with no question at all is left out: what add_texts does with
\* empty lists is the vector store's business, not the program's.
Banks ==
    {b \in UNION {[R -> SeqsUpTo(QuestionPool, MaxQuestions)] : R \in SUBSET BankRoles} :
        TotalQuestions(b) >= 1}

NoBank == [r \in {} |-> <<>>]

(***************************************************************************)
(* tool.py: setup_knowledge_base                                           *)
(***************************************************************************)
\* tool.py:76
EntryId(role, i) == Replace(role, " ", "_") \o <<"_">> \o StrOfNat(i)

\* tool.py:69-74
Meta(role, q) ==
    [role |-> role,
     full_question |-> q.question,
     options |-> SerializeOptions(q.options),
     answer |-> q.answer]

\* tool.py:65-76: what is handed to add_texts, one (id, metadata) pair per
\* question (two pairs of one id differ in their role, so the set keeps both)
Batch(bank) ==
    UNION {{[id |-> EntryId(r, i - 1), meta |-> Meta(r, bank[r][i])] :
                i \in 1..Len(bank[r])} : r \in DOMAIN bank}

\* the collection rejects a batch that names one id twice (DuplicateIDError)
HasDuplicateIds(batch) == \E e1, e2 \in batch : e1 # e2 /\ e1.id = e2.id

\* collection.upsert
Upsert(entries, batch) ==
    {e \in entries : \A n \in batch : n.id # e.id} \cup batch

AbsentCollection == [exists |-> FALSE, entries |-> {}]

\* tool.py:45-47
roles_in_db(coll) == {e.meta.role : e \in coll.entries}

\* tool.py:37-55
rebuild_required(bank, coll) ==
    \/ ~coll.exists                       \* get_collection raised ValueError
    \/ roles_in_db(coll) # DOMAIN bank      \* roles mismatch

\* tool.py:31-82, as a function of the bank and the persisted collection
setup_knowledge_base(bank, coll) ==
    LET rebuild == rebuild_required(bank, coll)
        dropped == coll.exists /\ rebuild
        \* tool.py:52 delete_collection, tool.py:57 Chroma(...) creates it anew
        opened == IF rebuild THEN {} ELSE coll.entries
        populate == rebuild \/ Cardinality(opened) = 0
        batch == Batch(bank)
        raised == populate /\ HasDuplicateIds(batch)
    IN  [dropped |-> dropped,
         populated |-> populate /\ ~raised,
         raised |-> raised,
         coll |-> [exists |-> TRUE,
                   entries |-> IF populate /\ ~raised
                               THEN Upsert(opened, batch)
                               ELSE opened]]

Ids(coll) == {e.id : e \in coll.entries}

NoLog == [reloadSame |-> FALSE, sameBank |-> FALSE, rolesDiffered |-> FALSE,
          dropped |-> FALSE, populated |-> FALSE, idsSame |-> FALSE,
          completed |-> FALSE]

NoSample == [called |-> FALSE, role |-> <<>>, num |-> 0, result |-> <<>>]

\* tool.py:29 at import: KNOWLEDGE_BASE = load_knowledge_base_from_json(...)
Import(b) ==
    /\ pc = "stopped"
    /\ pc' = "imported"
    /\ KNOWLEDGE_BASE' = b
    /\ setupLog' = [setupLog EXCEPT
                       !.reloadSame = setupLog.completed /\ b = KNOWLEDGE_BASE]
    /\ UNCHANGED <<collection, popRoles, sample, submission, ss, quiz, codec>>

\* api.py:38 / app.py:26-30: the front end calls setup_knowledge_base once
Setup ==
    /\ pc = "imported"
    /\ LET r == setup_knowledge_base(KNOWLEDGE_BASE, collection)
       IN /\ collection' = r.coll
          /\ pc' = IF r.raised THEN "failed" ELSE "ready"
          /\ setupLog' =
                [reloadSame |-> FALSE,
                 sameBank |-> setupLog.reloadSame,
                 rolesDiffered |-> /\ popRoles.known
                                   /\ popRoles.roles # DOMAIN KNOWLEDGE_BASE,
                 dropped |-> r.dropped,
                 populated |-> r.populated,
                 idsSame |-> Ids(r.coll) = Ids(collection),
                 completed |-> ~r.raised]
          /\ popRoles' =
                IF r.populated
                THEN [known |-> TRUE, roles |-> DOMAIN KNOWLEDGE_BASE]
                ELSE IF r.raised THEN [known |-> FALSE, roles |-> {}]
                ELSE popRoles
    /\ UNCHANGED <<KNOWLEDGE_BASE, sample, submission, ss, quiz, codec>>

\* the process ends; the collection stays on disk
Stop ==
    /\ pc \in {"ready", "failed"}
    /\ pc' = "stopped"
    /\ sample' = NoSample
    /\ UNCHANGED <<KNOWLEDGE_BASE, collection, setupLog, popRoles,
                   submission, ss, quiz, codec>>

(***************************************************************************)
(* tool.py: get_questions_for_role                                         *)
(***************************************************************************)
\* a filter that folds case
WhereRoleFolded(coll, role) ==
    {e \in coll.entries : Lower(e.meta.role) = Lower(role)}

\* tool.py:85: collection.get(where={"role": role})
WhereRole(coll, role) == {e \in coll.entries : e.meta.role = role}

\* tool.py:93-97; id is kept beside the record to tell which entry it is from
QuestionObj(e) ==
    [id |-> e.id,
     question |-> e.meta.full_question,
     options |-> DeserializeOptions(e.meta.options),
     answer |-> e.meta.answer]

\* random.choices in place of random.shuffle: drawn with replacement
ShufflesWithReplacement(S) == [1..Cardinality(S) -> S]

\* random.shuffle: every order of the list
Shuffles(S) ==
    {p \in [1..Cardinality(S) -> S] : \A i, j \in DOMAIN p : i # j => p[i] # p[j]}

\* questions[:num_questions], num_questions >= 1
Slice(s, n) == SubSeq(s, 1, Min(n, Len(s)))

\* tool.py:84-101: the results the call may return
get_questions_for_role(coll, role, num_questions) ==
    LET metadatas == WhereRole(coll, role)
    IN  IF metadatas = {} THEN {<<>>}
        ELSE {Slice([i \in DOMAIN p |-> QuestionObj(p[i])], num_questions) :
                 p \in Shuffles(metadatas)}

GetQuestions(role, num) ==
    /\ pc = "ready"
    /\ \E result \in get_questions_for_role(collection, role, num) :
          sample' = [called |-> TRUE, role |-> role, num |-> num, result |-> result]
    /\ UNCHANGED <<pc, KNOWLEDGE_BASE, collection, setupLog, popRoles,
                   submission, ss, quiz, codec>>

(***************************************************************************)
(* tool.py: get_feedback, the external text-generation call                *)
(***************************************************************************)
\* tool.py:103-129: the chain returns some text (an empty one included) or
\* raises
LlmOutcomes ==
    {[raised |-> FALSE, text |-> "review A"],
     [raised |-> FALSE, text |-> "review B"],
     [raised |-> FALSE, text |-> ""],
     [raised |-> TRUE, text |-> ""]}

(***************************************************************************)
(* api.py: POST /assessment/submit                                         *)
(***************************************************************************)
\* api.py:79-81: the fields of SubmissionRequest in their declared order,
\* which is the order pydantic validates them in
SubmissionFields == <<"role", "answers", "questions">>

FieldIndex(f) == CHOOSE i \in DOMAIN SubmissionFields : SubmissionFields[i] = f

\* api.py:83-88
validate_role(v, bank) == v \in DOMAIN bank

\* the `values` a validator of field f is handed: the fields declared before
\* f that passed validation
ValuesBefore(f, req, bank) ==
    {SubmissionFields[i] : i \in 1..(FieldIndex(f) - 1)}
        \ (IF validate_role(req.role, bank) THEN {} ELSE {"role"})

\* api.py:90-94: TRUE when the validator accepts the answers
validate_answers_length(v, values, req) ==
    ~("questions" \in values /\ Len(v) # Len(req.questions))

\* api.py:78-94: the request body is accepted by the model
ValidSubmission(req, bank) ==
    /\ validate_role(req.role, bank)
    /\ validate_answers_length(req.answers, ValuesBefore("answers", req, bank), req)

\* api.py:187
AnswerMatches(user_answer, answer) ==
    Lower(Strip(user_answer)) = Lower(Strip(answer))

\* api.py:185-188: zip stops at the shorter list
correct_answers(answers, questions) ==
    Cardinality({i \in 1..Min(Len(answers), Len(questions)) :
                    AnswerMatches(answers[i], questions[i].answer)})

\* (correct / total) * 100 to one decimal, in tenths; no total of the model
\* puts the quotient half way between two tenths
PercentTenths(correct, total) ==
    IF total > 0 THEN (2000 * correct + total) \div (2 * total) ELSE 0

\* f"{percentage:.1f}"
PercentText(correct, total) ==
    ToString(PercentTenths(correct, total) \div 10) \o "."
        \o ToString(PercentTenths(correct, total) % 10)

\* api.py:199
FallbackFeedback(correct, total) ==
    "Assessment completed with a score of " \o ToString(correct) \o " out of "
        \o ToString(total) \o " questions correct (" \o PercentText(correct, total)
        \o "%). Detailed feedback is temporarily unavailable."

\* api.py:195-199
FeedbackOrFallback(llm, correct, total) ==
    IF llm.raised THEN FallbackFeedback(correct, total) ELSE llm.text

\* api.py:181-211 behind the validation of the body (api.py:78-94)
SubmitResponse(req, bank, llm) ==
    IF ~ValidSubmission(req, bank)
    THEN [status |-> 422, scored |-> FALSE, score |-> 0, total_questions |-> 0,
          feedback |-> ""]
    ELSE LET correct == correct_answers(req.answers, req.questions)
             total == Len(req.questions)
         IN  [status |-> 200, scored |-> TRUE, score |-> correct,
              total_questions |-> total,
              feedback |-> FeedbackOrFallback(llm, correct, total)]

\* what a client may send as an answer
UserAnswers == {<<"A">>, <<" ", "b", " ">>, <<"c">>}

SubmissionRequests ==
    [role : AnyRole,
     answers : SeqsUpTo(UserAnswers, MaxAnswers),
     questions : SeqsUpTo(QuestionPool, MaxAnswers)]

NoSubmission ==
    [sent |-> FALSE, role |-> <<>>, answers |-> <<>>, questions |-> <<>>,
     llmRaised |-> FALSE,
     response |-> [status |-> 0, scored |-> FALSE, score |-> 0,
                   total_questions |-> 0, feedback |-> ""]]

submit_assessment(req, llm) ==
    /\ pc = "ready"
    /\ ~submission.sent
    /\ submission' = [sent |-> TRUE, role |-> req.role, answers |-> req.answers,
                      questions |-> req.questions,
                      llmRaised |-> ValidSubmission(req, KNOWLEDGE_BASE) /\ llm.raised,
                      response |-> SubmitResponse(req, KNOWLEDGE_BASE, llm)]
    /\ UNCHANGED <<pc, KNOWLEDGE_BASE, collection, setupLog, popRoles, sample,
                   ss, quiz, codec>>

\* the response has gone to the client; the handler keeps nothing of it
Respond ==
    /\ submission.sent
    /\ submission' = NoSubmission
    /\ UNCHANGED <<pc, KNOWLEDGE_BASE, collection, setupLog, popRoles, sample,
                   ss, quiz, codec>>

(***************************************************************************)
(* app.py: one browser session of the Streamlit front end.  A step is one  *)
(* user event with the script runs it causes (st.rerun included).          *)
(***************************************************************************)
QuizLength == 10

\* app.py:13-24
NoSession ==
    [test_started |-> FALSE, questions |-> <<>>, current_question |-> 0,
     user_answers |-> <<>>, score |-> 0, feedback |-> "", selected_role |-> <<>>]

\* calls: get_feedback invocations of the attempt; first: what the first one
\* that returned gave; shown: what the last finished results screen showed
NoQuiz ==
    [calls |-> 0, returned |-> FALSE, first |-> "", rendered |-> FALSE,
     shown |-> "", lastRaised |-> FALSE, surfaced |-> FALSE]

\* the last run of the results screen reached st.button("Restart Test")
RestartShown == quiz.rendered /\ ~quiz.lastRaised

\* app.py:94-97: user_answers.get(i) == q['answer']
SessionScore(user_answers, questions) ==
    Cardinality({i \in 1..Len(questions) :
                    /\ (i - 1) \in DOMAIN user_answers
                    /\ user_answers[i - 1] = questions[i].answer})

\* app.py:90-112: the results screen down to st.info; done is FALSE when
\* get_feedback raised and the script run ended there
ResultsScreen(s, q, llm) ==
    LET score == IF s.score = 0 /\ DOMAIN s.user_answers # {}
                 THEN SessionScore(s.user_answers, s.questions)
                 ELSE s.score
        scored == [s EXCEPT !.score = score]
        call == s.feedback = ""
    IN  IF ~call
        THEN [ss |-> scored, done |-> TRUE,
              quiz |-> [q EXCEPT !.rendered = TRUE, !.shown = s.feedback]]
        ELSE IF llm.raised
        THEN [ss |-> scored, done |-> FALSE,
              quiz |-> [q EXCEPT !.calls = @ + 1, !.lastRaised = TRUE,
                                 !.surfaced = TRUE]]
        ELSE [ss |-> [scored EXCEPT !.feedback = llm.text], done |-> TRUE,
              quiz |-> [q EXCEPT !.calls = @ + 1, !.lastRaised = FALSE,
                                 !.returned = TRUE,
                                 !.first = IF q.returned THEN @ ELSE llm.text,
                                 !.rendered = TRUE, !.shown = llm.text]]

OnQuestionScreen ==
    /\ pc = "ready"
    /\ ss.test_started
    /\ ss.current_question < Len(ss.questions)

OnResultsScreen ==
    /\ pc = "ready"
    /\ ss.test_started
    /\ ss.current_question >= Len(ss.questions)

\* the results screen calls get_feedback; the model follows MaxLlmCalls calls
MayRender == ss.feedback # "" \/ quiz.calls < MaxLlmCalls

SessionFrame ==
    UNCHANGED <<pc, KNOWLEDGE_BASE, collection, setupLog, popRoles, sample,
                submission, codec>>

\* app.py:35-56
StartTest(selected_role) ==
    /\ pc = "ready"
    /\ ~ss.test_started
    /\ selected_role \in DOMAIN KNOWLEDGE_BASE
    /\ \E questions \in get_questions_for_role(collection, selected_role, QuizLength) :
          IF questions = <<>>
          THEN UNCHANGED <<ss, quiz>>
          ELSE /\ ss' = [test_started |-> TRUE, questions |-> questions,
                         current_question |-> 0, user_answers |-> <<>>,
                         score |-> 0, feedback |-> "",
                         selected_role |-> selected_role]
               /\ quiz' = NoQuiz
    /\ SessionFrame

\* app.py:65-73
ChooseOption(user_choice) ==
    /\ OnQuestionScreen
    /\ user_choice \in Range(ss.questions[ss.current_question + 1].options)
    /\ user_choice # <<>>
    /\ ss' = [ss EXCEPT !.user_answers = (ss.current_question :> user_choice) @@ @]
    /\ UNCHANGED quiz
    /\ SessionFrame

\* app.py:76-79
Previous ==
    /\ OnQuestionScreen
    /\ ss.current_question > 0
    /\ ss' = [ss EXCEPT !.current_question = @ - 1]
    /\ UNCHANGED quiz
    /\ SessionFrame

\* the bound of Next off by one: q_index < len(questions)
NextQuestionPastLast ==
    /\ OnQuestionScreen
    /\ ss.current_question < Len(ss.questions)
    /\ ss' = [ss EXCEPT !.current_question = @ + 1]
    /\ UNCHANGED quiz
    /\ SessionFrame

\* app.py:81-84
NextQuestion ==
    /\ OnQuestionScreen
    /\ ss.current_question < Len(ss.questions) - 1
    /\ ss' = [ss EXCEPT !.current_question = @ + 1]
    /\ UNCHANGED quiz
    /\ SessionFrame

\* app.py:85-88, and the results screen of the rerun
SubmitTest(llm) ==
    /\ OnQuestionScreen
    /\ ~(ss.current_question < Len(ss.questions) - 1)
    /\ LET r == ResultsScreen([ss EXCEPT !.current_question = @ + 1], quiz, llm)
       IN  ss' = r.ss /\ quiz' = r.quiz
    /\ SessionFrame

\* app.py:90-112: the script runs again on the results screen
RerunResults(llm) ==
    /\ OnResultsScreen
    /\ MayRender
    /\ LET r == ResultsScreen(ss, quiz, llm)
       IN  ss' = r.ss /\ quiz' = r.quiz
    /\ SessionFrame

\* app.py:90-116: Restart Test is pressed; the button is read at the end of
\* the results screen
RestartTest(llm) ==
    /\ OnResultsScreen
    /\ RestartShown
    /\ MayRender
    /\ LET r == ResultsScreen(ss, quiz, llm)
       IN  /\ ss' = IF r.done THEN [r.ss EXCEPT !.test_started = FALSE] ELSE r.ss
           /\ quiz' = r.quiz
    /\ SessionFrame

(***************************************************************************)
(* The option list of one question on its way into the index (tool.py:72)  *)
(* and out of it again (tool.py:95).                                       *)
(***************************************************************************)
NoCodec == [stage |-> "none", options |-> <<>>, stored |-> <<>>, restored |-> <<>>]

OptionChars == {"a", "|"}

OptionTexts == SeqsUpTo(OptionChars, MaxOptionLen)

\* the spec's QuestionRecord: at least two options
OptionLists == UNION {[1..k -> OptionTexts] : k \in 2..MaxOptions}

\* tool.py:72
StoreOptions ==
    /\ codec.stage = "new"
    /\ codec' = [codec EXCEPT !.stage = "stored",
                              !.stored = SerializeOptions(codec.options)]
    /\ UNCHANGED <<pc, KNOWLEDGE_BASE, collection, setupLog, popRoles, sample,
                   submission, ss, quiz>>

\* tool.py:95
LoadOptions ==
    /\ codec.stage = "stored"
    /\ codec' = [codec EXCEPT !.stage = "loaded",
                              !.restored = DeserializeOptions(codec.stored)]
    /\ UNCHANGED <<pc, KNOWLEDGE_BASE, collection, setupLog, popRoles, sample,
                   submission, ss, quiz>>

Init ==
    /\ pc = "stopped"
    /\ KNOWLEDGE_BASE = NoBank
    /\ collection = AbsentCollection
    /\ setupLog = NoLog
    /\ popRoles = [known |-> FALSE, roles |-> {}]
    /\ sample = NoSample
    /\ submission = NoSubmission
    /\ ss = NoSession
    /\ quiz = NoQuiz
    /\ codec = NoCodec

Next ==
    \/ \E b \in Banks : Import(b)
    \/ Setup
    \/ Stop
    \/ \E role \in AnyRole, num \in 1..MaxCount : GetQuestions(role, num)

\* restarts of the process against an edited knowledge_base.json, and the
\* sampler
Spec == Init /\ [][Next]_vars

NextApi ==
    \/ \E b \in Banks : Import(b)
    \/ Setup
    \/ \E req \in SubmissionRequests, llm \in LlmOutcomes : submit_assessment(req, llm)
    \/ Respond

\* one run of the request/response front end
SpecApi == Init /\ [][NextApi]_vars

NextSession ==
    \/ \E b \in Banks : Import(b)
    \/ Setup
    \/ \E role \in BankRoles : StartTest(role)
    \/ \E choice \in UNION {Range(q.options) : q \in QuestionPool} : ChooseOption(choice)
    \/ Previous
    \/ NextQuestion
    \/ \E llm \in LlmOutcomes : SubmitTest(llm)
    \/ \E llm \in LlmOutcomes : RerunResults(llm)
    \/ \E llm \in LlmOutcomes : RestartTest(llm)

\* one run of the session front end
SpecSession == Init /\ [][NextSession]_vars

InitCodec ==
    /\ pc = "stopped"
    /\ KNOWLEDGE_BASE = NoBank
    /\ collection = AbsentCollection
    /\ setupLog = NoLog
    /\ popRoles = [known |-> FALSE, roles |-> {}]
    /\ sample = NoSample
    /\ submission = NoSubmission
    /\ ss = NoSession
    /\ quiz = NoQuiz
    /\ \E options \in OptionLists :
          codec = [stage |-> "new", options |-> options, stored |-> <<>>,
                   restored |-> <<>>]

NextCodec ==
    \/ StoreOptions
    \/ LoadOptions

\* every option list through the encoding and back
SpecCodec == InitCodec /\ [][NextCodec]_vars

(***************************************************************************)
(* The claims.                                                             *)
(***************************************************************************)
EntriesOf(role) == {e \in collection.entries : e.meta.role = role}

\* C1: once setup_knowledge_base has completed, the index holds exactly
\* len(KNOWLEDGE_BASE[r]) entries of every role r of the bank, whatever the
\* persisted collection held before.
C1_ReconcileCounts ==
    pc = "ready" =>
        \A r \in DOMAIN KNOWLEDGE_BASE :
            Cardinality(EntriesOf(r)) = Len(KNOWLEDGE_BASE[r])

\* C2: when the collection was populated from a bank whose role set differs
\* from the current bank's, setup leaves it (by dropping and repopulating
\* it) with no entry of a role outside the bank and exactly the bank's
\* entries of every role in it.
C2_RebuildOnRoleChange ==
    (pc = "ready" /\ setupLog.rolesDiffered) =>
        /\ \A e \in collection.entries : e.meta.role \in DOMAIN KNOWLEDGE_BASE
        /\ \A r \in DOMAIN KNOWLEDGE_BASE :
              EntriesOf(r) = {e \in Batch(KNOWLEDGE_BASE) : e.meta.role = r}

\* C3: a second setup in succession with the bank unchanged neither drops
\* nor repopulates, and leaves the entry ids (and so their number) as they
\* were.
C3_Idempotent ==
    (pc = "ready" /\ setupLog.sameBank) =>
        /\ ~setupLog.dropped
        /\ ~setupLog.populated
        /\ setupLog.idsSame

\* C4: for a role with k >= 1 indexed entries and a count >= 1 the sampler
\* returns min(k, count) records, each from an entry of the role, no two from
\* the same entry; with count >= k they are all k records.
C4_SamplerSizeDistinct ==
    LET indexed == EntriesOf(sample.role)
        k == Cardinality(indexed)
        res == sample.result
    IN  (sample.called /\ k >= 1) =>
            /\ Len(res) = Min(k, sample.num)
            /\ \A i, j \in DOMAIN res : i # j => res[i].id # res[j].id
            /\ \A i \in DOMAIN res :
                  \E e \in indexed :
                      /\ res[i].id = e.id
                      /\ res[i].question = e.meta.full_question
                      /\ res[i].answer = e.meta.answer
            /\ sample.num >= k => {res[i].id : i \in DOMAIN res} = {e.id : e \in indexed}

\* two entries indexed and one asked for: the sample is cut to one
C4_Witness ==
    /\ sample.called
    /\ Cardinality(EntriesOf(sample.role)) = 2
    /\ sample.num = 1
    /\ Len(sample.result) = 1

\* C5: a submission whose answers and questions differ in length is
\* rejected with a client error and is never scored.
C5_LengthMismatchRejected ==
    (submission.sent /\ Len(submission.answers) # Len(submission.questions)) =>
        /\ submission.response.status \in 400..499
        /\ ~submission.response.scored

\* C6: when get_feedback raises, the front end that called it (the submit
\* endpoint and the results screen alike) shows no exception and yields the
\* fallback text with the score, the total and the percentage.
C6_FeedbackFallback ==
    /\ submission.llmRaised =>
          /\ submission.response.status = 200
          /\ submission.response.feedback =
                FallbackFeedback(submission.response.score,
                                 submission.response.total_questions)
    /\ quiz.lastRaised =>
          /\ ~quiz.surfaced
          /\ ss.feedback = FallbackFeedback(ss.score, Len(ss.questions))

\* the number of positions whose answer equals the stored one once both are
\* stripped and lower-cased
NormalisedScore(user_answers, questions) ==
    Cardinality({i \in 1..Len(questions) :
                    /\ (i - 1) \in DOMAIN user_answers
                    /\ Lower(Strip(user_answers[i - 1]))
                          = Lower(Strip(questions[i].answer))})

AsDict(answers) == [i \in 0..(Len(answers) - 1) |-> answers[i + 1]]

\* C7: in both front ends the score is the number of positions at which the
\* user's answer, stripped and case-folded, equals the stored answer,
\* stripped and case-folded.
C7_ScoringRule ==
    /\ (submission.sent /\ submission.response.scored) =>
          submission.response.score =
              NormalisedScore(AsDict(submission.answers), submission.questions)
    /\ (ss.questions # <<>> /\ ss.current_question = Len(ss.questions)) =>
          ss.score = NormalisedScore(ss.user_answers, ss.questions)

Contains(s, p) == \E i \in 1..(Len(s) - Len(p) + 1) : SubSeq(s, i, i + Len(p) - 1) = p

EndsWith(s, p) == Len(s) >= Len(p) /\ SubSeq(s, Len(s) - Len(p) + 1, Len(s)) = p

\* C8 as stated: an option list of at least two strings none of which
\* contains "||" comes back from the encoding as it went in.
C8_RoundTripAsStated ==
    (/\ codec.stage = "loaded"
     /\ Len(codec.options) >= 2
     /\ \A i \in DOMAIN codec.options : ~Contains(codec.options[i], Delimiter)) =>
        codec.restored = codec.options

\* C8, amended: an option list of at least two strings none of which
\* contains "||" and none of which, the last apart, ends with "|" comes back
\* from the encoding as it went in.
C8_RoundTrip ==
    (/\ codec.stage = "loaded"
     /\ Len(codec.options) >= 2
     /\ \A i \in DOMAIN codec.options : ~Contains(codec.options[i], Delimiter)
     /\ \A i \in 1..(Len(codec.options) - 1) : ~EndsWith(codec.options[i], <<"|">>)) =>
        codec.restored = codec.options

\* a list with bars in it (one option starts with a bar, the last ends with
\* one) that came back unchanged
C8_Witness ==
    /\ codec.stage = "loaded"
    /\ Len(codec.options) >= 2
    /\ codec.options[1] = <<"|", "a">>
    /\ EndsWith(codec.options[Len(codec.options)], <<"|">>)
    /\ \A i \in DOMAIN codec.options : ~Contains(codec.options[i], Delimiter)
    /\ \A i \in 1..(Len(codec.options) - 1) : ~EndsWith(codec.options[i], <<"|">>)
    /\ codec.restored = codec.options

\* C9: for a role with no entry in the index (a case or spacing variant of
\* an indexed role included) the sampler returns the empty sequence.
C9_UnknownRoleEmpty ==
    (sample.called /\ \A e \in collection.entries : e.meta.role # sample.role) =>
        sample.result = <<>>

\* "d s" asked of an index that holds entries of "D S"
C9_Witness ==
    /\ sample.called
    /\ sample.role = Roleds
    /\ \E e \in collection.entries : e.meta.role = RoleDS
    /\ sample.result = <<>>

\* C10: within one quiz attempt get_feedback is invoked at most once, and
\* every results screen shows what that invocation returned.
C10_FeedbackOnce ==
    /\ quiz.calls <= 1
    /\ quiz.rendered => quiz.shown = quiz.first

(***************************************************************************)
(* What does hold where C1, C2, C3 and C10 fail.                           *)
(***************************************************************************)
\* a call that populated leaves the bank's number of entries for every role
PopulatedCounts ==
    (pc = "ready" /\ setupLog.populated) =>
        \A r \in DOMAIN KNOWLEDGE_BASE :
            Cardinality(EntriesOf(r)) = Len(KNOWLEDGE_BASE[r])

\* a second call with an unchanged bank, every role of which has a question,
\* is a no-op; with any unchanged bank the ids are as they were
IdempotentNonEmptyRoles ==
    /\ (/\ pc = "ready"
        /\ setupLog.sameBank
        /\ \A r \in DOMAIN KNOWLEDGE_BASE : KNOWLEDGE_BASE[r] # <<>>) =>
            (~setupLog.dropped /\ ~setupLog.populated)
    /\ (pc = "ready" /\ setupLog.sameBank) => setupLog.idsSame

\* once a call has returned a text that is not empty, the attempt invokes
\* get_feedback no more and shows that text
FeedbackCachedOnceReturned ==
    [][(quiz.returned /\ quiz.first # "" /\ quiz'.calls # 0) =>
           (quiz'.calls = quiz.calls /\ quiz'.shown = quiz.first)]_vars

(***************************************************************************)
(* Navigation of a started session.                                        *)
(***************************************************************************)
InSession == ss.test_started /\ ss'.test_started

\* C11: in a started session 0 <= current_question <= len(questions); a
\* step that lowers current_question is Previous, taken from
\* current_question > 0 and lowering it by one; a step that raises it
\* short of the results screen is Next, taken from current_question <
\* len(questions) - 1 and raising it by one; and the results screen
\* (current_question = len(questions)) is entered only by Submit Test on the
\* last question.
C11_Navigation ==
    /\ [](ss.test_started =>
            (0 <= ss.current_question /\ ss.current_question <= Len(ss.questions)))
    /\ [][/\ Previous => (ss.current_question > 0
                          /\ ss'.current_question = ss.current_question - 1)
          /\ NextQuestion => (ss.current_question < Len(ss.questions) - 1
                              /\ ss'.current_question = ss.current_question + 1)
          /\ (InSession /\ ss'.current_question < ss.current_question) => Previous
          /\ (/\ InSession
              /\ ss'.current_question > ss.current_question
              /\ ss'.current_question < Len(ss'.questions)) => NextQuestion
          /\ (/\ InSession
              /\ ss.current_question # Len(ss.questions)
              /\ ss'.current_question = Len(ss'.questions)) =>
                 (/\ ss.current_question = Len(ss.questions) - 1
                  /\ \E llm \in LlmOutcomes : SubmitTest(llm))]_vars

\* a two-question session on its results screen with both questions
\* answered: Next, then Submit Test, have acted
C11_Witness ==
    /\ ss.test_started
    /\ Len(ss.questions) = 2
    /\ ss.current_question = 2
    /\ DOMAIN ss.user_answers = {0, 1}

====
